---- MODULE Spec2Model ----
(***************************************************************************)
(* Nutrichat: the ingest pipeline (ingest.py) and the query pipeline       *)
(* (test_embeddings.py).  Text is a sequence of one-character strings.     *)
(***************************************************************************)
EXTENDS Integers, Sequences, FiniteSets, TLC

(* ------------------------------------------------------------------ *)
(* Bounds of the model                                                *)
(* ------------------------------------------------------------------ *)
MaxLen == 4
MaxChunkSize == 3
MaxBatch == 2
MaxRuns == 2

(* ------------------------------------------------------------------ *)
(* Characters                                                         *)
(* ------------------------------------------------------------------ *)
Alphabet == {"a", "-", " ", "\t", "\r", "\n"}

\* Python's \s and str.strip() whitespace, restricted to the alphabet
IsSpace(c) == c \in {" ", "\t", "\r", "\n"}

Texts(n) == UNION {[1..k -> Alphabet] : k \in 0..n}

\* t[i:j] of Python, 0-based, clipped like a Python slice
Slice(s, i, j) ==
    LET hi == IF j < Len(s) THEN j ELSE Len(s)
    IN  IF i >= hi THEN <<>> ELSE [k \in 1..(hi - i) |-> s[i + k]]

\* str.replace for a one-character pattern and replacement
Replace(t, from, to) == [i \in 1..Len(t) |-> IF t[i] = from THEN to ELSE t[i]]

\* first index >= i whose character is not in cls (Len(t)+1 when none)
RECURSIVE RunEnd(_, _, _)
RunEnd(t, i, cls) ==
    IF i > Len(t) \/ t[i] \notin cls THEN i ELSE RunEnd(t, i + 1, cls)

Whitespace == {" ", "\t", "\r", "\n"}

\* position of the last "\n" in t[lo..hi], 0 when there is none
LastNewline(t, lo, hi) ==
    LET S == {p \in lo..hi : t[p] = "\n"}
    IN  IF S = {} THEN 0 ELSE CHOOSE p \in S : \A q \in S : q <= p

\* str.strip()
Strip(t) ==
    LET S == {p \in 1..Len(t) : ~IsSpace(t[p])}
    IN  IF S = {} THEN <<>>
        ELSE LET lo == CHOOSE p \in S : \A q \in S : p <= q
                 hi == CHOOSE p \in S : \A q \in S : q <= p
             IN  Slice(t, lo - 1, hi)

(* ------------------------------------------------------------------ *)
(* clean_text (ingest.py)                                             *)
(* ------------------------------------------------------------------ *)
\* re.sub(r"-\s*\n\s*", "", t), scanning from position i.  At a "-" the
\* greedy \s* takes the whole whitespace run, backtracks to the run's last
\* "\n", and the trailing \s* takes the rest of the run: the match is the
\* hyphen plus the whole run, when the run holds a newline.
RECURSIVE JoinHyphens(_, _)
JoinHyphens(t, i) ==
    IF i > Len(t) THEN <<>>
    ELSE LET e == RunEnd(t, i + 1, Whitespace)
         IN  IF t[i] = "-" /\ LastNewline(t, i + 1, e - 1) # 0
             THEN JoinHyphens(t, e)
             ELSE <<t[i]>> \o JoinHyphens(t, i + 1)

\* re.sub(r"\s+\n", "\n", t), scanning from position i.  At a whitespace
\* character the greedy \s+ takes the run and backtracks to the last "\n"
\* after position i; the match runs from i to that newline.
RECURSIVE TrimBeforeNewline(_, _)
TrimBeforeNewline(t, i) ==
    IF i > Len(t) THEN <<>>
    ELSE LET e == RunEnd(t, i, Whitespace)
             p == LastNewline(t, i + 1, e - 1)
         IN  IF IsSpace(t[i]) /\ p # 0
             THEN <<"\n">> \o TrimBeforeNewline(t, p + 1)
             ELSE <<t[i]>> \o TrimBeforeNewline(t, i + 1)

\* re.sub(r"[ \t]+", " ", t), scanning from position i
RECURSIVE CollapseBlanks(_, _)
CollapseBlanks(t, i) ==
    IF i > Len(t) THEN <<>>
    ELSE IF t[i] \in {" ", "\t"}
         THEN <<" ">> \o CollapseBlanks(t, RunEnd(t, i, {" ", "\t"}))
         ELSE <<t[i]>> \o CollapseBlanks(t, i + 1)

clean_text(t) ==
    LET t1 == Replace(t, "\r", " ")
        t2 == JoinHyphens(t1, 1)
        t3 == TrimBeforeNewline(t2, 1)
        t4 == CollapseBlanks(t3, 1)
    IN  Strip(Replace(t4, "\n", " "))

(* ------------------------------------------------------------------ *)
(* RecursiveCharacterTextSplitter (langchain_text_splitters), the      *)
(* splitter ingest.py constructs: recursive separator strategy, then  *)
(* merging of adjacent pieces up to chunk_size with chunk_overlap.     *)
(* keep_separator and strip_whitespace have their default, True.      *)
(* ------------------------------------------------------------------ *)
\* whether sep starts at position i of text
MatchesAt(text, sep, i) ==
    /\ i + Len(sep) - 1 <= Len(text)
    /\ \A k \in 1..Len(sep) : text[i + k - 1] = sep[k]

\* re.search(re.escape(sep), text)
Occurs(sep, text) == \E i \in 1..Len(text) : MatchesAt(text, sep, i)

\* re.split("(sep)", text) with each separator glued to the front of the
\* piece that follows it; cur is the piece being collected
RECURSIVE SplitKeep(_, _, _, _)
SplitKeep(text, sep, i, cur) ==
    IF i > Len(text) THEN <<cur>>
    ELSE IF MatchesAt(text, sep, i)
         THEN <<cur>> \o SplitKeep(text, sep, i + Len(sep), sep)
         ELSE SplitKeep(text, sep, i + 1, Append(cur, text[i]))

NonEmpty(s) == s # <<>>

\* _split_text_with_regex(text, separator, keep_separator=True)
split_text_with_regex(text, sep) ==
    LET splits == IF sep # <<>> THEN SplitKeep(text, sep, 1, <<>>)
                  ELSE [i \in 1..Len(text) |-> <<text[i]>>]
    IN  SelectSeq(splits, NonEmpty)

\* separator.join(docs)
RECURSIVE Join(_, _)
Join(docs, sep) ==
    IF docs = <<>> THEN <<>>
    ELSE IF Len(docs) = 1 THEN docs[1]
    ELSE docs[1] \o sep \o Join(Tail(docs), sep)

\* _join_docs: the joined, stripped text; <<>> stands for None
join_docs(docs, sep) == Strip(Join(docs, sep))

\* the while loop of _merge_splits: drop pieces from the front of
\* current_doc until the overlap fits; yields <<current_doc, total>>
RECURSIVE PopFront(_, _, _, _, _, _)
PopFront(cur, total, len, seplen, cs, ov) ==
    IF \/ total > ov
       \/ /\ total + len + (IF Len(cur) > 0 THEN seplen ELSE 0) > cs
          /\ total > 0
    THEN PopFront(Tail(cur),
                  total - (Len(cur[1]) + (IF Len(cur) > 1 THEN seplen ELSE 0)),
                  len, seplen, cs, ov)
    ELSE <<cur, total>>

\* the for loop of _merge_splits from piece k on
RECURSIVE MergeLoop(_, _, _, _, _, _, _, _)
MergeLoop(splits, k, cur, total, docs, sep, cs, ov) ==
    IF k > Len(splits)
    THEN LET doc == join_docs(cur, sep)
         IN  IF doc = <<>> THEN docs ELSE Append(docs, doc)
    ELSE LET d == splits[k]
             len == Len(d)
             seplen == Len(sep)
             over == total + len + (IF Len(cur) > 0 THEN seplen ELSE 0) > cs
             flush == over /\ Len(cur) > 0
             doc == join_docs(cur, sep)
             docs2 == IF flush /\ doc # <<>> THEN Append(docs, doc) ELSE docs
             kept == IF flush THEN PopFront(cur, total, len, seplen, cs, ov)
                     ELSE <<cur, total>>
             cur2 == Append(kept[1], d)
             total2 == kept[2] + len + (IF Len(cur2) > 1 THEN seplen ELSE 0)
         IN  MergeLoop(splits, k + 1, cur2, total2, docs2, sep, cs, ov)

merge_splits(splits, sep, cs, ov) == MergeLoop(splits, 1, <<>>, 0, <<>>, sep, cs, ov)

\* index of the separator _split_text picks: the first that is "" or occurs
\* in the text; 0 when none does
PickSeparator(text, seps) ==
    LET S == {i \in 1..Len(seps) : seps[i] = <<>> \/ Occurs(seps[i], text)}
    IN  IF S = {} THEN 0 ELSE CHOOSE i \in S : \A j \in S : i <= j

\* _split_text(text, separators); SplitLoop is its loop over the splits
RECURSIVE split_text_rec(_, _, _, _), SplitLoop(_, _, _, _, _, _, _)
split_text_rec(text, seps, cs, ov) ==
    LET idx == PickSeparator(text, seps)
        separator == IF idx = 0 THEN seps[Len(seps)] ELSE seps[idx]
        new_separators == IF idx = 0 \/ seps[idx] = <<>> THEN <<>>
                          ELSE SubSeq(seps, idx + 1, Len(seps))
    IN  SplitLoop(split_text_with_regex(text, separator), 1, <<>>, <<>>,
                  new_separators, cs, ov)
SplitLoop(splits, k, good, final, newseps, cs, ov) ==
    IF k > Len(splits)
    THEN IF good # <<>> THEN final \o merge_splits(good, <<>>, cs, ov) ELSE final
    ELSE LET s == splits[k]
         IN  IF Len(s) < cs
             THEN SplitLoop(splits, k + 1, Append(good, s), final, newseps, cs, ov)
             ELSE LET flushed == IF good # <<>>
                                 THEN final \o merge_splits(good, <<>>, cs, ov)
                                 ELSE final
                      sub == IF newseps = <<>> THEN <<s>>
                             ELSE split_text_rec(s, newseps, cs, ov)
                  IN  SplitLoop(splits, k + 1, <<>>, flushed \o sub, newseps, cs, ov)

\* separators=["\n\n", "\n", " ", ""] without the final ""
SeparatorsNoEmpty == << <<"\n", "\n">>, <<"\n">>, <<" ">> >>

\* separators=["\n\n", "\n", " ", ""]
Separators == << <<"\n", "\n">>, <<"\n">>, <<" ">>, <<>> >>

\* text_splitter.split_text(text) for the splitter main() constructs
split_text(text, cs, ov) == split_text_rec(text, Separators, cs, ov)

(* ------------------------------------------------------------------ *)
(* State                                                              *)
(* ------------------------------------------------------------------ *)
VARIABLES
    \* text functions applied to one input
    raw, cleaned, recleaned, pieces, tpc,
    \* configuration of a run
    chunk_size, chunk_overlap, batch_embed, batch_insert,
    \* the PDF file and the store's chunks table
    pdf, chunks,
    \* ingest.py main(): position and locals
    pc, pages, inputs, metas, vectors, rows, embed_i, insert_j,
    \* bookkeeping: run number, calls issued by the current run, how the last
    \* two runs ended, the latest run that reached the upload loop
    run, events, prev_run, last_run, upload_run,
    \* test_embeddings.py main(): position, query index, the response r, the
    \* extracted e, what was printed for the last query
    qpc, qi, resp, e, out,
    \* bookkeeping: embedding requests sent, match_documents calls issued,
    \* the query whose embedding request was answered with a failure
    requests, searches, failed

tvars == <<raw, cleaned, recleaned, pieces, tpc>>
cvars == <<chunk_size, chunk_overlap, batch_embed, batch_insert>>
locals == <<pages, inputs, metas, vectors, rows, embed_i, insert_j>>
ivars == <<pdf, chunks, pc, locals, run, events, prev_run, last_run, upload_run>>
qvars == <<qpc, qi, resp, e, out, requests, searches, failed>>
vars == <<tvars, cvars, ivars, qvars>>

PDF_PATH == "human-nutrition-text.pdf"
DOC_ID == "nutrition-v1"

NoRun == [ok |-> FALSE, at |-> "none", count |-> 0]

TextIdle ==
    /\ raw = <<>>
    /\ cleaned = <<>>
    /\ recleaned = <<>>
    /\ pieces = <<>>
    /\ tpc = "off"

IngestIdle ==
    /\ pdf = <<>>
    /\ chunks = <<>>
    /\ pc = "off"
    /\ pages = <<>> /\ inputs = <<>> /\ metas = <<>> /\ vectors = <<>>
    /\ rows = <<>> /\ embed_i = 0 /\ insert_j = 0
    /\ run = 0 /\ events = <<>>
    /\ prev_run = NoRun /\ last_run = NoRun /\ upload_run = 0

(* ------------------------------------------------------------------ *)
(* test_embeddings.py                                                 *)
(* ------------------------------------------------------------------ *)
EMBED_MODEL == "qwen3-embedding:0.6b"
TOP_K == 3

queries == <<
    "How often should infants be breastfed?",
    "What are symptoms of pellagra?",
    "How does saliva help with digestion?",
    "What is the RDI for protein per day?",
    "water soluble vitamins",
    "What are micronutrients?" >>

\* JSON values of a response body, each [kind, items]: a key that is absent,
\* null, a non-empty string, a list (its items), a vector (its numbers)
Absent == [kind |-> "absent", items |-> <<>>]
Null == [kind |-> "null", items |-> <<>>]
Str == [kind |-> "string", items |-> <<>>]
List(xs) == [kind |-> "list", items |-> xs]
Vector(xs) == [kind |-> "vector", items |-> xs]
\* items of the "data" list: an object with its "embedding" key, or a number
Obj(emb) == [kind |-> "object", embedding |-> emb]
Num == [kind |-> "number", embedding |-> Absent]

V1 == Vector(<<1, 2>>)

Bodies == {
    [data |-> List(<<Obj(V1)>>), embedding |-> Absent],
    [data |-> Absent, embedding |-> V1],
    [data |-> Absent, embedding |-> Absent],
    [data |-> List(<<Obj(Absent)>>), embedding |-> Absent],
    [data |-> List(<<Obj(Null)>>), embedding |-> Absent],
    [data |-> List(<<>>), embedding |-> V1],
    [data |-> Str, embedding |-> Absent],
    [data |-> List(<<Num>>), embedding |-> Absent],
    [data |-> Null, embedding |-> Vector(<<>>)] }

Responses ==
    {[ok |-> FALSE, data |-> [data |-> Absent, embedding |-> Absent]]}
    \cup {[ok |-> TRUE, data |-> b] : b \in Bodies}

\* dict.get(key): None for an absent key
Get(v) == IF v.kind = "absent" THEN Null ELSE v

\* Python truth of a JSON value
Truthy(v) ==
    \/ v.kind = "string"
    \/ v.kind \in {"list", "vector"} /\ v.items # <<>>

\* json={"model": EMBED_MODEL, "prompt": q}
RequestBody(q) == [model |-> EMBED_MODEL, prompt |-> q]

\* the response-shape branches: the extracted e, SystemExit, or the
\* AttributeError of .get on an item that is no object
Extract(data) ==
    IF Truthy(Get(data.data)) /\ data.data.kind = "list" /\ Truthy(data.data)
    THEN IF data.data.items[1].kind = "object"
         THEN [to |-> "search", e |-> Get(data.data.items[1].embedding)]
         ELSE [to |-> "crash", e |-> Null]
    ELSE IF Truthy(Get(data.embedding))
         THEN [to |-> "search", e |-> Get(data.embedding)]
         ELSE [to |-> "exit", e |-> Null]

NoResponse == [ok |-> TRUE, data |-> [data |-> Absent, embedding |-> Absent]]

QueryIdle ==
    /\ qpc = "off" /\ qi = 1 /\ resp = NoResponse /\ e = Null /\ out = ""
    /\ requests = <<>> /\ searches = <<>> /\ failed = 0

QueryInit ==
    /\ qpc = "post" /\ qi = 1 /\ resp = NoResponse /\ e = Null /\ out = ""
    /\ requests = <<>> /\ searches = <<>> /\ failed = 0
    /\ TextIdle
    /\ chunk_size = 1 /\ chunk_overlap = 0
    /\ batch_embed = 1 /\ batch_insert = 1
    /\ IngestIdle

\* r = requests.post(EMBEDDING_API_URL, json=...)
Post ==
    /\ qpc = "post"
    /\ requests' = Append(requests, [q |-> qi, body |-> RequestBody(queries[qi])])
    /\ resp' \in Responses
    /\ qpc' = "status"
    /\ UNCHANGED <<qi, e, out, searches, failed, tvars, cvars, ivars>>

\* a failure answer skipped: on to the next query
CheckStatusContinue ==
    /\ qpc = "status"
    /\ IF resp.ok
       THEN qpc' = "parse" /\ qi' = qi /\ failed' = failed
       ELSE /\ failed' = qi
            /\ qi' = IF qi < Len(queries) THEN qi + 1 ELSE qi
            /\ qpc' = IF qi < Len(queries) THEN "post" ELSE "done"
    /\ UNCHANGED <<resp, e, out, requests, searches, tvars, cvars, ivars>>

\* if not r.ok: raise SystemExit(...)
CheckStatus ==
    /\ qpc = "status"
    /\ IF resp.ok
       THEN qpc' = "parse" /\ failed' = failed
       ELSE qpc' = "exit" /\ failed' = qi
    /\ UNCHANGED <<qi, resp, e, out, requests, searches, tvars, cvars, ivars>>

\* data = r.json() and the response-shape branches
Parse ==
    /\ qpc = "parse"
    /\ LET x == Extract(resp.data)
       IN  /\ qpc' = x.to
           /\ e' = x.e
    /\ UNCHANGED <<qi, resp, out, requests, searches, failed, tvars, cvars, ivars>>

\* sb.rpc("match_documents", ...), the printing of its rows, and the step
\* to the next query
Search ==
    /\ qpc = "search"
    /\ searches' = Append(searches,
           [q |-> qi, query_embedding |-> e, match_count |-> TOP_K,
            filter |-> [source |-> PDF_PATH]])
    /\ out' \in {"(no matches)", "rows"}
    /\ IF qi < Len(queries)
       THEN qi' = qi + 1 /\ qpc' = "post"
       ELSE qi' = qi /\ qpc' = "done"
    /\ UNCHANGED <<resp, e, requests, failed, tvars, cvars, ivars>>

QueryNext == Post \/ CheckStatus \/ Parse \/ Search

SpecQuery == QueryInit /\ [][QueryNext]_vars

(* ------------------------------------------------------------------ *)
(* ingest.py                                                          *)
(* ------------------------------------------------------------------ *)
Min(a, b) == IF a < b THEN a ELSE b

\* pdf_pages: (1-based page number, cleaned text) per page, in page order
pdf_pages(doc) == [p \in 1..Len(doc) |-> [page |-> p, text |-> clean_text(doc[p])]]

\* if chunk.strip(): keep the chunk
KeepChunk(chunk) == Strip(chunk) # <<>>

\* the chunking loop over pages: the (chunk, page) pairs appended to
\* inputs and metas, from page p on
RECURSIVE ChunkPages(_, _, _, _)
ChunkPages(pgs, p, cs, ov) ==
    IF p > Len(pgs) THEN <<>>
    ELSE LET text == pgs[p].text
             kept == IF text = <<>> THEN <<>>
                     ELSE SelectSeq(split_text(text, cs, ov), KeepChunk)
         IN  [k \in 1..Len(kept) |-> [chunk |-> kept[k], page |-> pgs[p].page]]
             \o ChunkPages(pgs, p + 1, cs, ov)

\* the model returns one vector per input, in input order
Vec(chunk) == [of |-> chunk]
encode(batch) == [k \in 1..Len(batch) |-> Vec(batch[k])]

\* inputs[i : i + BATCH_EMBED + 1]: a batch that overlaps the next one
BatchSliceOverlap(xs, i, size) == Slice(xs, i, i + size + 1)

\* inputs[i : i + BATCH_EMBED] and rows[j : j + BATCH_INSERT]
BatchSlice(xs, i, size) == Slice(xs, i, i + size)

\* rows numbered from the position in the unfiltered chunk list
\* (1-based here, as a counter bumped before use would give)
BuildRowsOneBased(ins, vecs, mts) ==
    [k \in 1..Min(Len(ins), Min(Len(vecs), Len(mts))) |->
        [doc_id |-> DOC_ID, chunk_index |-> k, content |-> ins[k],
         metadata |-> mts[k], embedding |-> vecs[k]]]

\* rows = [... for idx, (content, emb, meta) in enumerate(zip(inputs, vectors, metas))]
BuildRows(ins, vecs, mts) ==
    [k \in 1..Min(Len(ins), Min(Len(vecs), Len(mts))) |->
        [doc_id |-> DOC_ID, chunk_index |-> k - 1, content |-> ins[k],
         metadata |-> mts[k], embedding |-> vecs[k]]]

OtherDoc(r) == r.row.doc_id # DOC_ID

\* a delete that matches nothing
DeleteNothing(table) == table

\* a delete with the filter inverted: .neq("doc_id", DOC_ID)
DeleteOthers(table) == SelectSeq(table, LAMBDA r : r.row.doc_id = DOC_ID)

\* sb.table("chunks").delete().eq("doc_id", DOC_ID)
delete_chunks(table) == SelectSeq(table, OtherDoc)

\* sb.table("chunks").insert(batch): each stored row remembers the run
\* that inserted it
insert_chunks(table, batch, r) ==
    table \o [k \in 1..Len(batch) |-> [row |-> batch[k], gen |-> r]]

DocRows(table) == SelectSeq(table, LAMBDA r : r.row.doc_id = DOC_ID)

Call(op, from, n) == [op |-> op, from |-> from, n |-> n]

Ended(ok, at, table) == [ok |-> ok, at |-> at, count |-> Len(DocRows(table))]

\* rows left in the table by earlier ingests: one of this document, one
\* of another document
LegacyRow(doc, idx) ==
    [row |-> [doc_id |-> doc, chunk_index |-> idx, content |-> <<"z">>,
              metadata |-> [page |-> 1, source |-> PDF_PATH],
              embedding |-> Vec(<<"z">>)],
     gen |-> 0]

\* sample PDFs: raw page texts, with empty and blank pages
PageA == <<"a", "-", "\n", "b", " ", "c">>
PageB == <<"d", "e">>
PageBlank == <<" ", "\r", "\n">>
PDFs == { <<>>, <<PageBlank>>, <<PageA>>, <<PageBlank, PageA, PageB>>,
          <<PageA, <<>>, PageB>> }

\* (chunk_size, chunk_overlap) of the sample runs: CHUNK_SIZE = 1000 and
\* CHUNK_OVERLAP = 100 scaled down to the sample pages, as BATCH_EMBED = 100
\* and BATCH_INSERT = 200 are to 1..MaxBatch
ChunkConfigs == { <<1, 0>>, <<3, 1>> }

IngestInit ==
    /\ TextIdle
    /\ \E c \in ChunkConfigs : chunk_size = c[1] /\ chunk_overlap = c[2]
    /\ batch_embed \in 1..MaxBatch
    /\ batch_insert \in 1..MaxBatch
    /\ pdf \in PDFs
    /\ chunks \in { <<>>, <<LegacyRow("other-doc", 0), LegacyRow(DOC_ID, 0)>> }
    /\ pc = "idle"
    /\ pages = <<>> /\ inputs = <<>> /\ metas = <<>> /\ vectors = <<>>
    /\ rows = <<>> /\ embed_i = 0 /\ insert_j = 0
    /\ run = 0 /\ events = <<>>
    /\ prev_run = NoRun /\ last_run = NoRun /\ upload_run = 0
    /\ QueryIdle

\* main() up to the splitter's construction
Start ==
    /\ pc = "idle"
    /\ run < MaxRuns
    /\ run' = run + 1
    /\ pc' = "delete"
    /\ pages' = <<>> /\ inputs' = <<>> /\ metas' = <<>> /\ vectors' = <<>>
    /\ rows' = <<>> /\ embed_i' = 0 /\ insert_j' = 0
    /\ events' = <<>>
    /\ UNCHANGED <<qvars, tvars, cvars, pdf, chunks, prev_run, last_run, upload_run>>

DeleteChunks ==
    /\ pc = "delete"
    /\ chunks' = delete_chunks(chunks)
    /\ events' = Append(events, Call("delete", 0, 0))
    /\ pc' = "read"
    /\ UNCHANGED <<qvars, tvars, cvars, pdf, locals, run, prev_run, last_run, upload_run>>

ReadPdf ==
    /\ pc = "read"
    /\ pages' = pdf_pages(pdf)
    /\ pc' = "chunk"
    /\ UNCHANGED <<qvars, tvars, cvars, pdf, chunks, inputs, metas, vectors, rows,
                   embed_i, insert_j, run, events, prev_run, last_run, upload_run>>

BuildChunks ==
    /\ pc = "chunk"
    /\ LET built == ChunkPages(pages, 1, chunk_size, chunk_overlap)
       IN  /\ inputs' = [k \in 1..Len(built) |-> built[k].chunk]
           /\ metas' = [k \in 1..Len(built) |->
                          [page |-> built[k].page, source |-> PDF_PATH]]
    /\ pc' = "embed"
    /\ embed_i' = 0
    /\ UNCHANGED <<qvars, tvars, cvars, pdf, chunks, pages, vectors, rows, insert_j,
                   run, events, prev_run, last_run, upload_run>>

EmbedBatch ==
    /\ pc = "embed"
    /\ embed_i < Len(inputs)
    /\ LET batch == BatchSlice(inputs, embed_i, batch_embed)
       IN  /\ vectors' = vectors \o encode(batch)
           /\ events' = Append(events, Call("embed", embed_i, Len(batch)))
    /\ embed_i' = embed_i + batch_embed
    /\ UNCHANGED <<qvars, tvars, cvars, pdf, chunks, pc, pages, inputs, metas, rows,
                   insert_j, run, prev_run, last_run, upload_run>>

\* rows prepared and uploaded from inside the embedding loop
PrepareRowsEarly ==
    /\ pc = "embed"
    /\ embed_i > 0
    /\ rows' = BuildRows(inputs, vectors, metas)
    /\ pc' = "insert"
    /\ insert_j' = 0
    /\ upload_run' = run
    /\ UNCHANGED <<qvars, tvars, cvars, pdf, chunks, pages, inputs, metas, vectors,
                   embed_i, run, events, prev_run, last_run>>

PrepareRows ==
    /\ pc = "embed"
    /\ embed_i >= Len(inputs)
    /\ rows' = BuildRows(inputs, vectors, metas)
    /\ pc' = "insert"
    /\ insert_j' = 0
    /\ upload_run' = run
    /\ UNCHANGED <<qvars, tvars, cvars, pdf, chunks, pages, inputs, metas, vectors,
                   embed_i, run, events, prev_run, last_run>>

InsertBatch ==
    /\ pc = "insert"
    /\ insert_j < Len(rows)
    /\ LET batch == BatchSlice(rows, insert_j, batch_insert)
       IN  /\ chunks' = insert_chunks(chunks, batch, run)
           /\ events' = Append(events, Call("insert", insert_j, Len(batch)))
    /\ insert_j' = insert_j + batch_insert
    /\ UNCHANGED <<qvars, tvars, cvars, pdf, pc, pages, inputs, metas, vectors, rows,
                   embed_i, run, prev_run, last_run, upload_run>>

Finish ==
    /\ pc = "insert"
    /\ insert_j >= Len(rows)
    /\ pc' = "idle"
    /\ prev_run' = last_run
    /\ last_run' = Ended(TRUE, "done", chunks)
    /\ UNCHANGED <<qvars, tvars, cvars, pdf, chunks, locals, run, events, upload_run>>

\* an external call raises and the exception ends the run: the store's
\* delete, the PDF read, the model's encode, the store's insert.  A store
\* call that raises may or may not have taken effect.
Fail ==
    /\ \/ /\ pc = "delete"
          /\ chunks' \in {chunks, delete_chunks(chunks)}
       \/ /\ pc = "read"
          /\ chunks' = chunks
       \/ /\ pc = "embed" /\ embed_i < Len(inputs)
          /\ chunks' = chunks
       \/ /\ pc = "insert" /\ insert_j < Len(rows)
          /\ chunks' \in {chunks,
                insert_chunks(chunks, BatchSlice(rows, insert_j, batch_insert), run)}
    /\ pc' = "idle"
    /\ prev_run' = last_run
    /\ last_run' = Ended(FALSE, pc, chunks')
    /\ UNCHANGED <<qvars, tvars, cvars, pdf, locals, run, events, upload_run>>

IngestNext ==
    \/ Start \/ DeleteChunks \/ ReadPdf \/ BuildChunks \/ EmbedBatch
    \/ PrepareRows \/ InsertBatch \/ Finish \/ Fail

SpecIngest == IngestInit /\ [][IngestNext]_vars

(* ------------------------------------------------------------------ *)
(* The text functions on their own                                    *)
(* ------------------------------------------------------------------ *)
TextInit ==
    /\ raw \in Texts(MaxLen)
    /\ cleaned = <<>>
    /\ recleaned = <<>>
    /\ pieces = <<>>
    /\ tpc = "raw"
    /\ chunk_size = 1 /\ chunk_overlap = 0
    /\ batch_embed = 1 /\ batch_insert = 1
    /\ IngestIdle
    /\ QueryIdle

Clean ==
    /\ tpc = "raw"
    /\ cleaned' = clean_text(raw)
    /\ tpc' = "cleaned"
    /\ UNCHANGED <<raw, recleaned, pieces, cvars, ivars, qvars>>

Reclean ==
    /\ tpc = "cleaned"
    /\ recleaned' = clean_text(cleaned)
    /\ tpc' = "recleaned"
    /\ UNCHANGED <<raw, cleaned, pieces, cvars, ivars, qvars>>

Split ==
    /\ tpc = "cleaned"
    /\ \E cs \in 1..MaxChunkSize : \E ov \in 0..(cs - 1) :
          /\ chunk_size' = cs
          /\ chunk_overlap' = ov
          /\ pieces' = split_text(cleaned, cs, ov)
    /\ tpc' = "split"
    /\ UNCHANGED <<raw, cleaned, recleaned, batch_embed, batch_insert, ivars, qvars>>

TextNext == Clean \/ Reclean \/ Split

SpecText == TextInit /\ [][TextNext]_vars

(* ------------------------------------------------------------------ *)
(* Properties                                                         *)
(* ------------------------------------------------------------------ *)
IsDocRow(r) == r.row.doc_id = DOC_ID

\* C1: two ingest runs that complete one after the other leave as many rows
\* of the doc_id as the first of them left, all of them rows of the second
\* run: no row of the first run survives.
C1_IdempotentReingest ==
    (pc = "idle" /\ prev_run.ok /\ last_run.ok) =>
        /\ last_run.count = prev_run.count
        /\ Len(DocRows(chunks)) = last_run.count
        /\ last_run.count = Len(rows)
        /\ \A k \in 1..Len(chunks) : IsDocRow(chunks[k]) => chunks[k].gen = run

C1_Witness ==
    pc = "idle" /\ prev_run.ok /\ last_run.ok /\ last_run.count >= 3

\* C2: at every moment of every sequence of runs, completed or aborted at
\* any step, all rows stored under the doc_id were inserted by one run, the
\* latest run that reached the upload loop.
C2_OneGeneration ==
    \A k \in 1..Len(chunks) : IsDocRow(chunks[k]) => chunks[k].gen = upload_run

C2_Witness ==
    /\ run = 2 /\ pc = "insert" /\ insert_j > 0
    /\ ~last_run.ok /\ last_run.at = "insert" /\ last_run.count > 0
    /\ Len(DocRows(chunks)) > 0

\* the contents of the rows of page p, in row order
RowsOfPage(p) ==
    LET sel == SelectSeq(rows, LAMBDA r : r.metadata.page = p)
    IN  [k \in 1..Len(sel) |-> sel[k].content]

\* the chunks of page p that are kept: none for an empty page
KeptOfPage(p) ==
    IF pages[p].text = <<>> THEN <<>>
    ELSE SelectSeq(split_text(pages[p].text, chunk_size, chunk_overlap),
                   LAMBDA c : \E k \in 1..Len(c) : ~IsSpace(c[k]))

\* C3: the chunk_index values of the rows one run builds are 0, 1, ..., n-1
\* in row order, and the rows follow page order and, within a page, the
\* order of the splitter's kept chunks; empty pages and whitespace-only
\* chunks take no index.
C3_ChunkIndex ==
    pc = "insert" =>
        /\ \A k \in 1..Len(rows) : rows[k].chunk_index = k - 1
        /\ \A k \in 1..Len(rows) : \A l \in k..Len(rows) :
              rows[k].metadata.page <= rows[l].metadata.page
        /\ \A k \in 1..Len(rows) : rows[k].metadata.page \in 1..Len(pages)
        /\ \A p \in 1..Len(pages) : RowsOfPage(p) = KeptOfPage(p)

C3_Witness ==
    /\ pc = "insert" /\ Len(rows) >= 4
    /\ \E p \in 1..Len(pages) : pages[p].text = <<>> /\ p < Len(pages)
    /\ \E p \in 1..Len(pages) :
          LET cs == split_text(pages[p].text, chunk_size, chunk_overlap)
          IN  \E k \in 1..Len(cs) : Strip(cs[k]) = <<>>

\* the sizes of the embedding batches issued so far, summed
RECURSIVE EmbeddedCount(_)
EmbeddedCount(ev) ==
    IF ev = <<>> THEN 0
    ELSE (IF ev[1].op = "embed" THEN ev[1].n ELSE 0) + EmbeddedCount(Tail(ev))

\* C9: when the rows are built there is one row per kept chunk, row i holds
\* chunk i, the page/source of chunk i and the vector of chunk i, and the
\* embedding batches covered every chunk exactly once.
C9_Alignment ==
    pc = "insert" =>
        /\ Len(rows) = Len(inputs)
        /\ Len(vectors) = Len(inputs)
        /\ EmbeddedCount(events) = Len(inputs)
        /\ \A k \in 1..Len(rows) :
              /\ rows[k].content = inputs[k]
              /\ rows[k].metadata = metas[k]
              /\ rows[k].embedding = Vec(inputs[k])

C9_Witness ==
    /\ pc = "insert" /\ Len(rows) >= 3
    /\ batch_embed > 1 /\ Len(inputs) % batch_embed # 0
    /\ \E k \in 1..Len(rows) : rows[k].metadata.page # rows[1].metadata.page

\* C10: in every run the delete is the first call; the k-th embedding batch
\* starts at chunk (k-1)*B and holds B chunks (the last one the rest); no
\* insert is issued before the batches cover every chunk, and none after a
\* failed embedding batch.
C10_StepOrdering ==
    /\ \A k \in 1..Len(events) : (events[k].op = "delete") <=> (k = 1)
    /\ \A k \in 1..Len(events) :
          events[k].op = "embed" =>
              /\ \A l \in 2..k : events[l].op = "embed"
              /\ events[k].from = (k - 2) * batch_embed
              /\ events[k].n = Min(batch_embed, Len(inputs) - events[k].from)
              /\ events[k].n > 0
    /\ \A k \in 1..Len(events) :
          events[k].op = "insert" =>
              EmbeddedCount(SubSeq(events, 1, k)) = Len(inputs)
    /\ (pc = "idle" /\ ~last_run.ok /\ last_run.at = "embed") =>
          \A k \in 1..Len(events) : events[k].op # "insert"

C10_Witness ==
    /\ Len(events) >= 5
    /\ events[2].op = "embed" /\ events[3].op = "embed"
    /\ events[Len(events)].op = "insert" /\ events[Len(events)].from > 0

\* C4: normalizing an already-normalized string changes nothing.
C4_Idempotent == tpc = "recleaned" => recleaned = cleaned

\* C8: every chunk the splitter produces for a normalized text, under any
\* configuration with chunk_overlap < chunk_size, is at most chunk_size long.
C8_LengthBound ==
    tpc = "split" => \A k \in 1..Len(pieces) : Len(pieces[k]) <= chunk_size

C8_Witness ==
    /\ tpc = "split" /\ chunk_overlap > 0
    /\ Len(cleaned) > chunk_size
    /\ \A k \in 1..Len(cleaned) : cleaned[k] # " "
    /\ Len(pieces) >= 2

\* C5: every match_documents call carries a vector extracted from the
\* response as its query_embedding, never a missing or null value.
C5_SearchHasVector ==
    \A k \in 1..Len(searches) : searches[k].query_embedding.kind = "vector"

\* C6: queries are embedded in list order, each once; after a failure answer
\* for query i the run has stopped: the requests are those of queries 1..i,
\* and no search was issued for query i or a later one.
C6_FailureAborts ==
    /\ \A k \in 1..Len(requests) : requests[k].q = k
    /\ \A k \in 1..Len(searches) : searches[k].q = k
    /\ failed # 0 =>
          /\ qpc = "exit"
          /\ Len(requests) = failed
          /\ Len(searches) = failed - 1

C6_Witness ==
    qpc = "exit" /\ failed = 3 /\ Len(searches) = 2 /\ Len(requests) = 3

\* C7: every request sent to the embedding service has a model field and an
\* input field holding the query text.
C7_RequestShape ==
    \A k \in 1..Len(requests) :
        /\ "model" \in DOMAIN requests[k].body
        /\ "input" \in DOMAIN requests[k].body
        /\ requests[k].body["input"] = queries[requests[k].q]
====
